---- MODULE Spec2Model ----
(***************************************************************************)
(* Model of app.py: the batch spelling checker and error profiler.         *)
(*                                                                         *)
(* A text is a sequence of characters, a character is a one-element string *)
(* (the uncased Hangul letter U+C640 is written "U+C640").  The dictionary *)
(* (pyspellchecker) and the tagger (nltk.pos_tag) are collaborators: the   *)
(* model draws them from small families in Init and lets each call fail.   *)
(***************************************************************************)
EXTENDS Naturals, Sequences, FiniteSets

\* ------------------------------------------------------------ bounds
MaxTokens == 2      \* tokens per document, single-document specification
MaxDocs == 2        \* documents per batch, batch specification
MaxWords == 10      \* candidate words per document, rate specification

\* -------------------------------------------------------- characters
UNC == "U+C640"     \* a letter without case: isalpha, neither upper nor lower
COMMA == ","
SPACE == " "
LowerLetters == {"t", "e", "h"}
UpperLetters == {"T", "E", "H"}

IsLowerCh(c) == c \in LowerLetters
IsUpperCh(c) == c \in UpperLetters
IsCasedCh(c) == IsLowerCh(c) \/ IsUpperCh(c)
IsAlphaCh(c) == IsCasedCh(c) \/ c = UNC

LowerCh(c) ==
  CASE c = "T" -> "t" [] c = "E" -> "e" [] c = "H" -> "h" [] OTHER -> c

UpperCh(c) ==
  CASE c = "t" -> "T" [] c = "e" -> "E" [] c = "h" -> "H" [] OTHER -> c

\* ------------------------------------------------------ str methods
\* str.isalpha(): non-empty and every character alphabetic
str_isalpha(s) == Len(s) > 0 /\ \A i \in 1..Len(s) : IsAlphaCh(s[i])

\* str.isupper(): at least one cased character and no lower-case one
str_isupper(s) ==
  /\ \E i \in 1..Len(s) : IsCasedCh(s[i])
  /\ \A i \in 1..Len(s) : ~IsLowerCh(s[i])

\* str.istitle(): upper-case characters only after uncased ones (or at the
\* start), lower-case characters only after cased ones, one cased at least
str_istitle(s) ==
  /\ \E i \in 1..Len(s) : IsCasedCh(s[i])
  /\ \A i \in 1..Len(s) :
       /\ IsUpperCh(s[i]) => (i = 1 \/ ~IsCasedCh(s[i-1]))
       /\ IsLowerCh(s[i]) => (i > 1 /\ IsCasedCh(s[i-1]))

str_lower(s) == [i \in 1..Len(s) |-> LowerCh(s[i])]

str_upper(s) == [i \in 1..Len(s) |-> UpperCh(s[i])]

\* str.capitalize(): first character upper-cased, all the others lower-cased
str_capitalize(s) ==
  [i \in 1..Len(s) |-> IF i = 1 THEN UpperCh(s[i]) ELSE LowerCh(s[i])]

\* --------------------------------------------------------- tokenizer
\* word_tokenize on letters, commas and spaces: words split at white space,
\* every comma a token of its own.  A token starts at a comma, or at a letter
\* that begins the text or follows a space or a comma; a word runs to the last
\* letter before the next space, comma or end.
token_starts(text) ==
  {j \in 1..Len(text) :
     /\ text[j] # SPACE
     /\ text[j] = COMMA \/ j = 1 \/ text[j - 1] \in {SPACE, COMMA}}

token_end(text, j) ==
  IF text[j] = COMMA THEN j
  ELSE CHOOSE m \in j..Len(text) :
         /\ \A x \in j..m : text[x] \notin {SPACE, COMMA}
         /\ m = Len(text) \/ text[m + 1] \in {SPACE, COMMA}

tokenize_text(text) ==
  LET starts == token_starts(text)
      nth(n) == CHOOSE j \in starts : Cardinality({x \in starts : x <= j}) = n
  IN [n \in 1..Cardinality(starts) |-> SubSeq(text, nth(n), token_end(text, nth(n)))]

\* TreebankWordDetokenizer.detokenize: tokens joined by one space, the space
\* before a comma removed, the ends stripped
RECURSIVE detokenize(_)
detokenize(toks) ==
  IF toks = <<>> THEN <<>>
  ELSE LET n == Len(toks)
           front == detokenize(SubSeq(toks, 1, n - 1))
           last == toks[n]
       IN IF front = <<>> THEN last
          ELSE IF last = <<COMMA>> THEN front \o last
          ELSE front \o <<SPACE>> \o last

is_candidate_word(tok) ==
  str_isalpha(tok) /\ Len(tok) > 2 /\ ~str_isupper(tok)

\* [i for i, t in enumerate(tokens) if is_candidate_word(t)], ascending
candidate_indices_of(tokens) ==
  LET cands == {p \in 1..Len(tokens) : is_candidate_word(tokens[p])}
      nth(n) == CHOOSE p \in cands : Cardinality({x \in cands : x <= p}) = n
  IN [n \in 1..Cardinality(cands) |-> nth(n)]

count_real_words(text) == Len(candidate_indices_of(tokenize_text(text)))

\* -------------------------------------------------------- dictionary
\* A SpellChecker is its word list and its best-suggestion table.  No
\* suggestion (None, or the empty string) is the empty sequence: the code tests
\* both with "not suggestion".
NoSuggestion == <<>>

\* spell.unknown(words): the words the dictionary does not hold
spell_unknown(spell, words) ==
  {words[j] : j \in 1..Len(words)} \ spell.known

\* spell.correction(word)
spell_correction(spell, word) ==
  IF word \in DOMAIN spell.sugg THEN spell.sugg[word] ELSE NoSuggestion

\* dict.setdefault(key, value): the first value recorded for a key stays
dict_setdefault(d, key, value) ==
  IF key \in DOMAIN d THEN d
  ELSE [x \in DOMAIN d \cup {key} |-> IF x = key THEN value ELSE d[x]]

\* the casing decision of lines 75-80
restore_casing(surface, suggestion) ==
  IF str_istitle(surface) THEN str_capitalize(suggestion)
  ELSE IF str_isupper(surface) THEN str_upper(suggestion)
  ELSE suggestion

\* the local state of analyze_and_correct before its loop (lines 56-61)
loop_init(tokens) ==
  [corrections |-> <<>>, error_count |-> 0, misspelled_list |-> <<>>,
   corrected_tokens |-> tokens]

\* loop_body with error_count counting each surface form once
loop_body_count_distinct(st, tokens, misspelled_set, spell, idx) ==
  LET lw == str_lower(tokens[idx])
      surface == tokens[idx]
      found == spell_correction(spell, lw)
      suggestion == IF found = NoSuggestion THEN surface ELSE found
      final_word == restore_casing(surface, suggestion)
  IN IF lw \in misspelled_set
     THEN [corrections |-> dict_setdefault(st.corrections, surface, suggestion),
           error_count |-> IF surface \in DOMAIN st.corrections
                           THEN st.error_count ELSE st.error_count + 1,
           misspelled_list |-> Append(st.misspelled_list, surface),
           corrected_tokens |-> [st.corrected_tokens EXCEPT ![idx] = final_word]]
     ELSE st

\* loop_body without the assignment of line 82
loop_body_no_replace(st, tokens, misspelled_set, spell, idx) ==
  LET lw == str_lower(tokens[idx])
      surface == tokens[idx]
      found == spell_correction(spell, lw)
      suggestion == IF found = NoSuggestion THEN surface ELSE found
  IN IF lw \in misspelled_set
     THEN [corrections |-> dict_setdefault(st.corrections, surface, suggestion),
           error_count |-> st.error_count + 1,
           misspelled_list |-> Append(st.misspelled_list, surface),
           corrected_tokens |-> st.corrected_tokens]
     ELSE st

\* loop_body without the test "lw in misspelled_set"
loop_body_no_lookup(st, tokens, misspelled_set, spell, idx) ==
  LET lw == str_lower(tokens[idx])
      surface == tokens[idx]
      found == spell_correction(spell, lw)
      suggestion == IF found = NoSuggestion THEN surface ELSE found
      final_word == restore_casing(surface, suggestion)
  IN [corrections |-> dict_setdefault(st.corrections, surface, suggestion),
      error_count |-> st.error_count + 1,
      misspelled_list |-> Append(st.misspelled_list, surface),
      corrected_tokens |-> [st.corrected_tokens EXCEPT ![idx] = final_word]]

\* one iteration of the loop of lines 63-82, for the candidate at tokens[idx]
loop_body(st, tokens, misspelled_set, spell, idx) ==
  LET lw == str_lower(tokens[idx])
      surface == tokens[idx]
      found == spell_correction(spell, lw)
      suggestion == IF found = NoSuggestion THEN surface ELSE found
      final_word == restore_casing(surface, suggestion)
  IN IF lw \in misspelled_set
     THEN [corrections |-> dict_setdefault(st.corrections, surface, suggestion),
           error_count |-> st.error_count + 1,
           misspelled_list |-> Append(st.misspelled_list, surface),
           corrected_tokens |-> [st.corrected_tokens EXCEPT ![idx] = final_word]]
     ELSE st

\* the loop run over the first k candidates
RECURSIVE correct_loop(_, _, _, _, _)
correct_loop(tokens, misspelled_set, spell, cands, k) ==
  IF k = 0 THEN loop_init(tokens)
  ELSE loop_body(correct_loop(tokens, misspelled_set, spell, cands, k - 1),
                 tokens, misspelled_set, spell, cands[k])

\* ------------------------------------------------------------ tagger
\* nltk.pos_tag tags a word by the word and by its left context.  The
\* "lexical" tagger looks at the word alone; the "contextual" one tags a word
\* that follows a noun as a verb, as a perceptron tagger with previous-tag
\* features may.
TaggerKinds == {"lexical", "contextual"}

lexical_tag(word) == IF str_istitle(word) THEN "NNP" ELSE "NN"

RECURSIVE pos_tag(_, _)
pos_tag(tagger, words) ==
  IF words = <<>> THEN <<>>
  ELSE LET n == Len(words)
           front == pos_tag(tagger, SubSeq(words, 1, n - 1))
           tag == IF tagger = "contextual" /\ n > 1 /\ front[n - 1] \in {"NN", "NNP"}
                  THEN "VB"
                  ELSE lexical_tag(words[n])
       IN Append(front, tag)

\* collections.Counter(iterable): the keys seen, each with its count
Counter(tags) ==
  [t \in {tags[j] : j \in 1..Len(tags)} |->
     Cardinality({j \in 1..Len(tags) : tags[j] = t})]

counter_get(c, t) == IF t \in DOMAIN c THEN c[t] ELSE 0

\* dict.update(other) in the place of Counter.update: counts replaced per key
counter_update_overwrite(c, other) ==
  [t \in DOMAIN c \cup DOMAIN other |->
     IF t \in DOMAIN other THEN other[t] ELSE c[t]]

\* Counter.update(other): counts added per key
counter_update(c, other) ==
  [t \in DOMAIN c \cup DOMAIN other |-> counter_get(c, t) + counter_get(other, t)]

\* analyze_and_correct as a function of its arguments (lines 50-90); the
\* record also carries the locals misspelled_list and corrected_tokens
analyze_and_correct(text, spell, tagger) ==
  LET tokens == tokenize_text(text)
      cands == candidate_indices_of(tokens)
      candidate_words == [j \in 1..Len(cands) |-> str_lower(tokens[cands[j]])]
      misspelled_set == spell_unknown(spell, candidate_words)
      st == correct_loop(tokens, misspelled_set, spell, cands, Len(cands))
  IN [corrected_text |-> detokenize(st.corrected_tokens),
      corrections |-> st.corrections,
      error_count |-> st.error_count,
      pos_profile |-> Counter(pos_tag(tagger, st.misspelled_list)),
      misspelled_list |-> st.misspelled_list,
      corrected_tokens |-> st.corrected_tokens]

\* -------------------------------------------------------- error rate
\* the rate cut after two decimals instead of rounded
error_rate_truncated(err_count, total_words) ==
  IF total_words > 0 THEN (err_count * 10000) \div total_words ELSE 0

\* ---- IEEE 754 double arithmetic, on naturals written as bit sequences with
\* ---- the least significant bit first and no leading zero
RECURSIVE nat_bits(_)
nat_bits(n) == IF n = 0 THEN <<>> ELSE <<n % 2>> \o nat_bits(n \div 2)

\* bits lo..hi of b * c + carry for a small c, and the carry out of bit hi
RECURSIVE bits_times_range(_, _, _, _, _)
bits_times_range(b, c, lo, hi, carry) ==
  IF lo > hi THEN [bits |-> <<>>, carry |-> carry]
  ELSE IF lo = hi
  THEN LET v == b[lo] * c + carry IN [bits |-> <<v % 2>>, carry |-> v \div 2]
  ELSE LET mid == (lo + hi) \div 2
           left == bits_times_range(b, c, lo, mid, carry)
           right == bits_times_range(b, c, mid + 1, hi, left.carry)
       IN [bits |-> left.bits \o right.bits, carry |-> right.carry]

bits_times(b, c) ==
  LET t == bits_times_range(b, c, 1, Len(b), 0) IN t.bits \o nat_bits(t.carry)

bits_plus_one(b) ==
  IF \A j \in 1..Len(b) : b[j] = 1 THEN [j \in 1..Len(b) |-> 0] \o <<1>>
  ELSE LET z == CHOOSE j \in 1..Len(b) : b[j] = 0 /\ \A m \in 1..(j - 1) : b[m] = 1
       IN [j \in 1..Len(b) |-> IF j < z THEN 0 ELSE IF j = z THEN 1 ELSE b[j]]

bits_shift_left(b, n) == IF b = <<>> THEN <<>> ELSE [j \in 1..n |-> 0] \o b

bits_less(a, b) ==
  \/ Len(a) < Len(b)
  \/ /\ Len(a) = Len(b)
     /\ \E j \in 1..Len(a) :
          a[j] < b[j] /\ \A m \in (j + 1)..Len(a) : a[m] = b[m]

\* a value rounded to 53 significant bits, ties to even: the kept bits and
\* the number of bits dropped
round_to_double(b) ==
  IF Len(b) <= 53 THEN [bits |-> b, dropped |-> 0]
  ELSE LET d == Len(b) - 53
           high == SubSeq(b, d + 1, Len(b))
           sticky == \E j \in 1..(d - 1) : b[j] = 1
           up == b[d] = 1 /\ (sticky \/ high[1] = 1)
       IN [bits |-> IF up THEN bits_plus_one(high) ELSE high, dropped |-> d]

\* the first n bits of r / total after the binary point, most significant
\* first, and the remainder left (r < total): long division, a bit a step
RECURSIVE quotient_bits(_, _, _)
quotient_bits(r, total, n) ==
  IF n = 0 THEN [bits |-> <<>>, rem |-> r]
  ELSE IF n = 1
  THEN LET bit == IF 2 * r >= total THEN 1 ELSE 0
       IN [bits |-> <<bit>>, rem |-> 2 * r - bit * total]
  ELSE LET left == quotient_bits(r, total, n \div 2)
           right == quotient_bits(left.rem, total, n - n \div 2)
       IN [bits |-> left.bits \o right.bits, rem |-> right.rem]

\* the least e with err * 2^e >= total, and err * 2^e
RECURSIVE scale_up(_, _, _)
scale_up(a, total, e) ==
  IF a >= total THEN [a |-> a, e |-> e] ELSE scale_up(2 * a, total, e + 1)

\* the double err / total for 0 < err <= total: the value is
\* mantissa * 2^-(52 + e), the mantissa rounded to 53 bits, ties to even
double_quotient(err, total) ==
  LET sc == scale_up(err, total, 0)
      q == quotient_bits(sc.a - total, total, 52)
      msb_first == <<1>> \o q.bits
      lsb_first == [j \in 1..53 |-> msb_first[54 - j]]
      up == 2 * q.rem > total \/ (2 * q.rem = total /\ lsb_first[1] = 1)
  IN [mantissa |-> IF up THEN bits_plus_one(lsb_first) ELSE lsb_first, e |-> sc.e]

\* the hundredths "{:.2f}" prints for the double err_count / total_words * 100:
\* the quotient is rounded to a double, its product with 100 is rounded to a
\* double x, and x is printed to the nearer hundredth, to the even one when x
\* is the midpoint itself; 0 for no candidate words (lines 125-126)
error_rate_hundredths(err_count, total_words) ==
  IF total_words > 0 /\ err_count > 0
  THEN LET y == double_quotient(err_count, total_words)
           x == round_to_double(bits_times(y.mantissa, 100))
           \* x = x.bits * 2^x.dropped * 2^-(52 + y.e)
           low == (err_count * 10000) \div total_words
           \* x against the midpoint (2 * low + 1) / 200, both times 200 * 2^(52 + y.e)
           x_scaled == bits_shift_left(bits_times(x.bits, 200), x.dropped)
           mid_scaled == bits_shift_left(nat_bits(2 * low + 1), 52 + y.e)
       IN IF bits_less(mid_scaled, x_scaled) THEN low + 1
          ELSE IF bits_less(x_scaled, mid_scaled) THEN low
          ELSE IF low % 2 = 1 THEN low + 1 ELSE low
  ELSE 0

DigitCh(d) ==
  CASE d = 0 -> "0" [] d = 1 -> "1" [] d = 2 -> "2" [] d = 3 -> "3" [] d = 4 -> "4"
    [] d = 5 -> "5" [] d = 6 -> "6" [] d = 7 -> "7" [] d = 8 -> "8" [] d = 9 -> "9"

RECURSIVE decimal_digits(_)
decimal_digits(n) ==
  IF n < 10 THEN <<DigitCh(n)>>
  ELSE Append(decimal_digits(n \div 10), DigitCh(n % 10))

\* f"{error_rate:.2f}%" (line 126)
format_rate(err_count, total_words) ==
  LET h == error_rate_hundredths(err_count, total_words)
  IN decimal_digits(h \div 100)
       \o <<".", DigitCh((h % 100) \div 10), DigitCh(h % 10), "%">>

\* ------------------------------------------------------------- state
VARIABLES
  uploaded_files,   \* the uploaded texts, decoded; file j is named j
  spell,            \* the SpellChecker of line 100
  tagger,           \* the tagger behind nltk.pos_tag
  pc,               \* the place the script has reached
  i,                \* the index of the document in the loop of line 111
  tokens,           \* analyze_and_correct: tokens
  candidate_indices,
  misspelled_set,
  k,                \* the candidates the loop of line 63 has gone through
  st,               \* corrections, error_count, misspelled_list, corrected_tokens
  corrected_text,
  pos_profile,
  error_summary,    \* the rows of the summary (line 105)
  all_pos_profile,  \* the Counter of line 106
  zip_entries,      \* what was written into the ZIP archive
  success,          \* st.success was shown (line 144)
  download          \* the bundle the download button exposes, <<>> before

vars == <<uploaded_files, spell, tagger, pc, i, tokens, candidate_indices,
          misspelled_set, k, st, corrected_text, pos_profile, error_summary,
          all_pos_profile, zip_entries, success, download>>

inputs == <<uploaded_files, spell, tagger>>
analysis == <<tokens, candidate_indices, misspelled_set, k, st, corrected_text,
              pos_profile>>
outputs == <<error_summary, all_pos_profile, zip_entries, success, download>>

\* ------------------------------------------------------------ inputs
teh == <<"t", "e", "h">>
the == <<"t", "h", "e">>
mixed == <<UNC, "t", "e">>      \* a word with a letter that has no case

Letters == LowerLetters \cup UpperLetters \cup {UNC}
Casings(w) == {s \in [1..Len(w) -> Letters] : str_lower(s) = w}

\* the tokens of the single-document specification: every casing of a
\* misspelled word and of a mixed-script word, a known word, a comma
Vocab == Casings(teh) \cup Casings(mixed) \cup {the, str_capitalize(the), <<COMMA>>}

TokenSeqs(V, n) == UNION {[1..m -> V] : m \in 0..n}

DocTexts == {detokenize(ts) : ts \in TokenSeqs(Vocab, MaxTokens)}

\* dictionaries that know "the" and answer an unknown word with nothing, with
\* "the", or with a word they do not hold themselves
DocSpells ==
  {[known |-> {the}, sugg |-> f] : f \in [{teh, mixed} -> {NoSuggestion, the, teh}]}

BatchTexts ==
  {detokenize(ts) : ts \in {<<teh>>, <<str_capitalize(teh), the>>,
                            <<the, <<COMMA>>, teh>>, <<the>>}}

BatchSpells ==
  {[known |-> {the}, sugg |-> f] : f \in [{teh} -> {NoSuggestion, the}]}

Batches == UNION {[1..m -> BatchTexts] : m \in 1..MaxDocs}

\* documents of j misspelled words followed by n - j known ones
RECURSIVE repeat(_, _)
repeat(tok, n) == IF n = 0 THEN <<>> ELSE Append(repeat(tok, n - 1), tok)

RateTexts ==
  UNION {{detokenize(repeat(teh, j) \o repeat(the, n - j)) : j \in 0..n} :
           n \in 0..MaxWords}

InitWith(batches, spells, taggers) ==
  /\ uploaded_files \in batches
  /\ spell \in spells
  /\ tagger \in taggers
  /\ pc = "idle"
  /\ i = 0
  /\ tokens = <<>>
  /\ candidate_indices = <<>>
  /\ misspelled_set = {}
  /\ k = 0
  /\ st = loop_init(<<>>)
  /\ corrected_text = <<>>
  /\ pos_profile = <<>>
  /\ error_summary = <<>>
  /\ all_pos_profile = <<>>
  /\ zip_entries = <<>>
  /\ success = FALSE
  /\ download = <<>>

Init == InitWith(Batches, BatchSpells, TaggerKinds)

InitDoc == InitWith({<<t>> : t \in DocTexts}, DocSpells, {"lexical"})

InitRate == InitWith({<<t>> : t \in RateTexts}, BatchSpells, {"lexical"})

\* ----------------------------------------------------------- actions
\* the button is pressed with files uploaded (lines 98-109)
StartAnalysis ==
  /\ pc = "idle"
  /\ Len(uploaded_files) > 0
  /\ pc' = "read"
  /\ i' = 1
  /\ error_summary' = <<>>
  /\ all_pos_profile' = <<>>
  /\ zip_entries' = <<>>
  /\ UNCHANGED <<inputs, analysis, success, download>>

\* the next file is read and tokenized (lines 113-114, 51-53)
ReadFile ==
  /\ pc = "read"
  /\ LET toks == tokenize_text(uploaded_files[i])
     IN /\ tokens' = toks
        /\ candidate_indices' = candidate_indices_of(toks)
  /\ misspelled_set' = {}
  /\ k' = 0
  /\ st' = loop_init(<<>>)
  /\ corrected_text' = <<>>
  /\ pos_profile' = <<>>
  /\ pc' = "unknown"
  /\ UNCHANGED <<inputs, i, outputs>>

\* spell.unknown answers; the locals of the loop are set up (lines 54-61)
QueryUnknown ==
  /\ pc = "unknown"
  /\ misspelled_set' =
       spell_unknown(spell, [j \in 1..Len(candidate_indices) |->
                               str_lower(tokens[candidate_indices[j]])])
  /\ st' = loop_init(tokens)
  /\ k' = 0
  /\ pc' = "loop"
  /\ UNCHANGED <<inputs, i, tokens, candidate_indices, corrected_text, pos_profile,
                 outputs>>

\* one iteration of the loop over the candidates (lines 63-82)
LoopStep ==
  /\ pc = "loop"
  /\ k < Len(candidate_indices)
  /\ st' = loop_body(st, tokens, misspelled_set, spell, candidate_indices[k + 1])
  /\ k' = k + 1
  /\ UNCHANGED <<inputs, pc, i, tokens, candidate_indices, misspelled_set,
                 corrected_text, pos_profile, outputs>>

\* the loop is over: the tokens are joined again (line 84)
Detokenize ==
  /\ pc = "loop"
  /\ k = Len(candidate_indices)
  /\ corrected_text' = detokenize(st.corrected_tokens)
  /\ pc' = "pos_tag"
  /\ UNCHANGED <<inputs, i, tokens, candidate_indices, misspelled_set, k, st,
                 pos_profile, outputs>>

\* nltk.pos_tag answers and analyze_and_correct returns (lines 87-90)
PosTag ==
  /\ pc = "pos_tag"
  /\ pos_profile' = Counter(pos_tag(tagger, st.misspelled_list))
  /\ pc' = "merge"
  /\ UNCHANGED <<inputs, i, tokens, candidate_indices, misspelled_set, k, st,
                 corrected_text, outputs>>

\* all_pos_profile.update(pos_profile) (line 118)
MergeProfile ==
  /\ pc = "merge"
  /\ all_pos_profile' = counter_update(all_pos_profile, pos_profile)
  /\ pc' = "zip"
  /\ UNCHANGED <<inputs, i, analysis, error_summary, zip_entries, success, download>>

\* zf.writestr(f"corrected_{filename}", corrected_text) (line 121)
WriteCorrected ==
  /\ pc = "zip"
  /\ zip_entries' = Append(zip_entries, [name |-> <<"corrected", i>>,
                                         data |-> corrected_text])
  /\ pc' = "summary"
  /\ UNCHANGED <<inputs, i, analysis, error_summary, all_pos_profile, success,
                 download>>

\* the summary row of the document (lines 124-126)
summary_row(filename, original_text, err_count) ==
  LET total_words == count_real_words(original_text)
  IN <<filename, total_words, err_count, format_rate(err_count, total_words)>>

\* AppendSummary with no row for a document without errors
AppendSummaryOnlyErrors ==
  /\ pc = "summary"
  /\ error_summary' =
       IF st.error_count > 0
       THEN Append(error_summary, summary_row(i, uploaded_files[i], st.error_count))
       ELSE error_summary
  /\ pc' = "progress"
  /\ UNCHANGED <<inputs, i, analysis, all_pos_profile, zip_entries, success, download>>

AppendSummary ==
  /\ pc = "summary"
  /\ error_summary' =
       Append(error_summary, summary_row(i, uploaded_files[i], st.error_count))
  /\ pc' = "progress"
  /\ UNCHANGED <<inputs, i, analysis, all_pos_profile, zip_entries, success, download>>

\* the progress bar moves and the loop goes on or ends (lines 129, 111)
Progress ==
  /\ pc = "progress"
  /\ IF i < Len(uploaded_files)
     THEN i' = i + 1 /\ pc' = "read"
     ELSE i' = i /\ pc' = "csv"
  /\ UNCHANGED <<inputs, analysis, outputs>>

\* summary_report.csv (lines 132-136)
WriteCsv ==
  /\ pc = "csv"
  /\ zip_entries' =
       Append(zip_entries,
              [name |-> "summary_report.csv",
               data |-> <<(<<"Filename", "Total Words", "Error Count", "Error Rate">>)>>
                          \o error_summary])
  /\ pc' = "report"
  /\ UNCHANGED <<inputs, i, analysis, error_summary, all_pos_profile, success,
                 download>>

\* pos_analysis_report.txt, and the archive is closed (lines 139-142)
WriteReport ==
  /\ pc = "report"
  /\ zip_entries' = Append(zip_entries, [name |-> "pos_analysis_report.txt",
                                         data |-> all_pos_profile])
  /\ pc' = "success"
  /\ UNCHANGED <<inputs, i, analysis, error_summary, all_pos_profile, success,
                 download>>

\* st.success("Analysis Complete!") (line 144)
ShowSuccess ==
  /\ pc = "success"
  /\ success' = TRUE
  /\ pc' = "download"
  /\ UNCHANGED <<inputs, i, analysis, error_summary, all_pos_profile, zip_entries,
                 download>>

\* st.download_button(data=zip_buffer.getvalue()) (lines 147-152)
ShowDownload ==
  /\ pc = "download"
  /\ download' = zip_entries
  /\ pc' = "done"
  /\ UNCHANGED <<inputs, i, analysis, error_summary, all_pos_profile, zip_entries,
                 success>>

\* a call of the dictionary or of the tagger is being made
collaborator_called ==
  \/ pc = "unknown"
  \/ /\ pc = "loop"
     /\ k < Len(candidate_indices)
     /\ str_lower(tokens[candidate_indices[k + 1]]) \in misspelled_set
  \/ pc = "pos_tag"

\* the exception caught and the loop going on with the next file
FailSwallowed ==
  /\ collaborator_called
  /\ pc' = "progress"
  /\ UNCHANGED <<inputs, i, analysis, outputs>>

\* the call raises: the exception leaves the loop and the with block, and the
\* script run ends (lines 54, 66, 87 raising through 117 and 108)
Fail ==
  /\ collaborator_called
  /\ pc' = "failed"
  /\ UNCHANGED <<inputs, i, analysis, outputs>>

Next ==
  \/ StartAnalysis
  \/ ReadFile
  \/ QueryUnknown
  \/ LoopStep
  \/ Detokenize
  \/ PosTag
  \/ MergeProfile
  \/ WriteCorrected
  \/ AppendSummary
  \/ Progress
  \/ WriteCsv
  \/ WriteReport
  \/ ShowSuccess
  \/ ShowDownload
  \/ Fail

Spec == Init /\ [][Next]_vars

SpecDoc == InitDoc /\ [][Next]_vars

SpecRate == InitRate /\ [][Next]_vars

TypeOK ==
  /\ pc \in {"idle", "read", "unknown", "loop", "pos_tag", "merge", "zip", "summary",
             "progress", "csv", "report", "success", "download", "done", "failed"}
  /\ i \in 0..Len(uploaded_files)
  /\ k \in 0..Len(candidate_indices)
  /\ success \in BOOLEAN

\* ------------------------------------------------------------ claims
\* the candidates the loop has gone through, as token positions
done_positions == {candidate_indices[j] : j \in 1..k}

\* a candidate position whose lower-case form the dictionary does not hold
is_misspelled_at(p) ==
  is_candidate_word(tokens[p]) /\ str_lower(tokens[p]) \notin spell.known

\* the loop of analyze_and_correct has run to its end for the current document
loop_finished == pc \in {"pos_tag", "merge", "zip", "summary", "progress"}

\* title-case as the specification words it: first letter upper, rest lower
FirstUpperRestLower(s) ==
  /\ Len(s) > 0
  /\ IsUpperCh(s[1])
  /\ \A j \in 2..Len(s) : IsLowerCh(s[j])

\* a word with only its first letter upper-cased
UpperFirst(s) == [j \in 1..Len(s) |-> IF j = 1 THEN UpperCh(s[j]) ELSE s[j]]

\* C1: every misspelled candidate with a suggestion s is replaced by s with
\* its first letter upper-cased when its surface is first-upper-rest-lower, and
\* by s verbatim when its surface is lower-case or mixed-case.
C1_CasingTitleOrVerbatim ==
  pc = "loop" =>
    \A p \in done_positions :
      LET s == spell_correction(spell, str_lower(tokens[p]))
      IN (is_misspelled_at(p) /\ s # NoSuggestion) =>
           st.corrected_tokens[p] =
             IF FirstUpperRestLower(tokens[p]) THEN UpperFirst(s) ELSE s

\* C2: a token "TEH", with a dictionary that does not hold "teh" and suggests
\* "the", comes out as "THE" and is counted as an error.
C2_UpperSurfaceCorrected ==
  (loop_finished /\ teh \notin spell.known /\ spell_correction(spell, teh) = the) =>
    \A p \in 1..Len(tokens) :
      tokens[p] = str_upper(teh) =>
        /\ st.corrected_tokens[p] = str_upper(the)
        /\ st.error_count >= 1
        /\ str_upper(teh) \in DOMAIN st.corrections

\* C5: a misspelled candidate without a suggestion is counted, listed, mapped
\* to itself, and left as it is in the output, whatever its casing.
C5_NoSuggestionKeepsSurface ==
  pc = "loop" =>
    \A p \in done_positions :
      (is_misspelled_at(p)
         /\ spell_correction(spell, str_lower(tokens[p])) = NoSuggestion) =>
        /\ st.error_count >= 1
        /\ \E j \in 1..Len(st.misspelled_list) : st.misspelled_list[j] = tokens[p]
        /\ tokens[p] \in DOMAIN st.corrections
        /\ st.corrections[tokens[p]] = tokens[p]
        /\ st.corrected_tokens[p] = tokens[p]

\* the misspelled candidate occurrences the loop has gone through
misspelled_done == {p \in done_positions : is_misspelled_at(p)}

\* what the dictionary offers for a surface form, the surface form if nothing
suggestion_for(surface) ==
  LET s == spell_correction(spell, str_lower(surface))
  IN IF s = NoSuggestion THEN surface ELSE s

in_loop_or_after == pc = "loop" \/ loop_finished

C3_State ==
  in_loop_or_after =>
    /\ st.error_count = Cardinality(misspelled_done)
    /\ Len(st.misspelled_list) = Cardinality(misspelled_done)
    /\ DOMAIN st.corrections = {tokens[p] : p \in misspelled_done}
    /\ \A s \in DOMAIN st.corrections : st.corrections[s] = suggestion_for(s)
    /\ \A p \in misspelled_done :
         st.corrected_tokens[p] = restore_casing(tokens[p], st.corrections[tokens[p]])

C3_Step ==
  (pc = "loop" /\ pc' \in {"loop", "pos_tag"}) =>
    \A s \in DOMAIN st.corrections :
      s \in DOMAIN st'.corrections /\ st'.corrections[s] = st.corrections[s]

\* C3: error_count is the number of misspelled candidate occurrences, each
\* occurrence is replaced by the case-adjusted entry of the corrections map,
\* the map has one entry per distinct misspelled surface form holding the
\* suggestion of its first occurrence, and no later step overwrites an entry.
C3_DuplicateSurface == [](C3_State) /\ [][C3_Step]_vars

C3_Witness ==
  /\ loop_finished
  /\ st.error_count = 2
  /\ Cardinality(DOMAIN st.corrections) = 1
  /\ tokens[1] = tokens[2]

C4_State ==
  in_loop_or_after =>
    /\ Len(st.corrected_tokens) = Len(tokens)
    /\ st.error_count <= Cardinality({p \in 1..Len(tokens) : is_misspelled_at(p)})
    /\ \A p \in 1..Len(tokens) :
         ~is_misspelled_at(p) =>
           /\ st.corrected_tokens[p] = tokens[p]
           /\ tokens[p] \notin DOMAIN st.corrections
           /\ \A j \in 1..Len(st.misspelled_list) : st.misspelled_list[j] # tokens[p]

C4_Step ==
  (pc = "loop" /\ k' = k + 1 /\ ~is_misspelled_at(candidate_indices[k + 1])) =>
    st' = st

\* C4: a candidate the dictionary recognises, and a token that is no
\* candidate, stays as it is at its position in the corrected tokens, whose
\* number is that of the input tokens; it enters neither the corrections map
\* nor the misspelled list, and going through it leaves error_count alone.
C4_OnlyMisspelledChanged == [](C4_State) /\ [][C4_Step]_vars

C4_Witness ==
  /\ loop_finished
  /\ \E p, q \in 1..Len(tokens) :
       /\ is_candidate_word(tokens[p]) /\ ~is_misspelled_at(p)
       /\ is_misspelled_at(q) /\ st.corrected_tokens[q] # tokens[q]

\* the dictionary holds every word it has offered as a correction
corrected_words_recognised ==
  \A p \in misspelled_done : str_lower(suggestion_for(tokens[p])) \in spell.known

\* C7: when the dictionary recognises the corrected words, analyze_and_correct
\* run on the text it produced counts no error, records no correction and
\* returns that text.
C7_SecondPassClean ==
  (pc = "merge" /\ corrected_words_recognised) =>
    LET again == analyze_and_correct(corrected_text, spell, tagger)
    IN /\ again.error_count = 0
       /\ again.corrections = <<>>
       /\ again.corrected_text = corrected_text

C7_Witness ==
  /\ pc = "merge"
  /\ corrected_words_recognised
  /\ st.error_count = 2
  /\ corrected_text # uploaded_files[i]

\* reading a rendered rate back: the digits before the point, two after, "%"
DigitValue(c) ==
  CASE c = "0" -> 0 [] c = "1" -> 1 [] c = "2" -> 2 [] c = "3" -> 3 [] c = "4" -> 4
    [] c = "5" -> 5 [] c = "6" -> 6 [] c = "7" -> 7 [] c = "8" -> 8 [] c = "9" -> 9

DigitChars == {"0", "1", "2", "3", "4", "5", "6", "7", "8", "9"}

RECURSIVE digits_value(_)
digits_value(ds) ==
  IF ds = <<>> THEN 0
  ELSE 10 * digits_value(SubSeq(ds, 1, Len(ds) - 1)) + DigitValue(ds[Len(ds)])

IsPercentString(s) ==
  /\ Len(s) >= 5
  /\ s[Len(s)] = "%"
  /\ s[Len(s) - 3] = "."
  /\ \A j \in (1..(Len(s) - 4)) \cup {Len(s) - 2, Len(s) - 1} : s[j] \in DigitChars

percent_hundredths(s) ==
  100 * digits_value(SubSeq(s, 1, Len(s) - 4))
    + 10 * DigitValue(s[Len(s) - 2]) + DigitValue(s[Len(s) - 1])

\* the candidate tokens of an uploaded text, and the misspelled ones among them
candidates_in(text) ==
  LET toks == tokenize_text(text)
  IN {p \in 1..Len(toks) : is_candidate_word(toks[p])}

misspelled_in(text) ==
  LET toks == tokenize_text(text)
  IN {p \in candidates_in(text) : str_lower(toks[p]) \notin spell.known}

\* C6: every summary row holds the number of candidate tokens of the original
\* text, the number of misspelled occurrences, and their ratio in percent
\* rendered with two decimals: within half a hundredth of
\* error_count / total * 100, "0.00%" when there is no candidate word, and
\* "20.00%" for 2 errors in 10 candidate words.
C6_ErrorRate ==
  \A j \in 1..Len(error_summary) :
    LET row == error_summary[j]
        total == Cardinality(candidates_in(uploaded_files[row[1]]))
        err == Cardinality(misspelled_in(uploaded_files[row[1]]))
        h == percent_hundredths(row[4])
    IN /\ row[2] = total
       /\ row[3] = err
       /\ IsPercentString(row[4])
       /\ total = 0 => row[4] = <<"0", ".", "0", "0", "%">>
       /\ total > 0 => /\ 2 * h * total <= 2 * err * 10000 + total
                       /\ 2 * err * 10000 <= 2 * h * total + total
       /\ (total = 10 /\ err = 2) => row[4] = <<"2", "0", ".", "0", "0", "%">>

C6_Witness ==
  \E j \in 1..Len(error_summary) :
    /\ error_summary[j][2] = 10
    /\ error_summary[j][3] = 2
    /\ error_summary[j][4] = <<"2", "0", ".", "0", "0", "%">>

\* the per-document results, by analyze_and_correct as a function
profile_of(j) == analyze_and_correct(uploaded_files[j], spell, tagger).pos_profile
misspelled_of(j) == analyze_and_correct(uploaded_files[j], spell, tagger).misspelled_list

\* the profiles of the documents order[1], order[2], ... merged in that order
RECURSIVE merged_in_order(_)
merged_in_order(order) ==
  IF order = <<>> THEN <<>>
  ELSE counter_update(merged_in_order(SubSeq(order, 1, Len(order) - 1)),
                      profile_of(order[Len(order)]))

Orders(n) == {f \in [1..n -> 1..n] : \A a, b \in 1..n : f[a] = f[b] => a = b}

RECURSIVE misspelled_upto(_)
misspelled_upto(n) ==
  IF n = 0 THEN <<>> ELSE misspelled_upto(n - 1) \o misspelled_of(n)

order_independent ==
  \A order \in Orders(Len(uploaded_files)) : merged_in_order(order) = all_pos_profile

equals_one_tagger_call ==
  all_pos_profile = Counter(pos_tag(tagger, misspelled_upto(Len(uploaded_files))))

\* C8 as stated: the merged profile of two documents does not depend on
\* their order and is the profile of one tagger call on the concatenation of
\* their misspelled-word lists.
C8_MergeEqualsConcatTagging ==
  (pc = "csv" /\ Len(uploaded_files) = 2) =>
    order_independent /\ equals_one_tagger_call

\* C8 amended: the merged profile does not depend on the order of the
\* documents; it is the profile of one tagger call on the concatenated lists
\* when the tagger tags every word by the word alone.
C8_MergeCommutes ==
  (pc = "csv" /\ Len(uploaded_files) >= 2) =>
    /\ order_independent
    /\ tagger = "lexical" => equals_one_tagger_call

C8_Witness ==
  /\ pc = "csv"
  /\ Len(uploaded_files) = 2
  /\ uploaded_files[1] # uploaded_files[2]
  /\ profile_of(1) # <<>>
  /\ profile_of(2) # <<>>
  /\ Cardinality(DOMAIN all_pos_profile) = 2

zip_names == {zip_entries[j].name : j \in 1..Len(zip_entries)}

bundle_complete ==
  /\ Len(error_summary) = Len(uploaded_files)
  /\ \A j \in 1..Len(uploaded_files) : <<"corrected", j>> \in zip_names
  /\ "summary_report.csv" \in zip_names
  /\ "pos_analysis_report.txt" \in zip_names

C9_State ==
  /\ pc = "failed" => (~success /\ download = <<>>)
  /\ success => (pc \in {"download", "done"} /\ bundle_complete)
  /\ download # <<>> => (success /\ pc = "done" /\ download = zip_entries)

C9_Step == pc = "failed" => UNCHANGED vars

\* C9: after a failed call of the dictionary or of the tagger nothing more
\* happens: no later document is processed, the completion signal and the
\* bundle never appear; they appear only when every document has its summary
\* row and its corrected file and both reports are in the archive.
C9_FailureAbortsBatch == [](C9_State) /\ [][C9_Step]_vars

C9_Witness ==
  /\ pc = "failed"
  /\ Len(uploaded_files) = 2
  /\ i = 1
  /\ st.error_count > 0

\* places where the loop can be seen: a call that may fail, the head of the
\* loop, everything after the loop, the failed run
observable ==
  \/ collaborator_called
  \/ pc \in {"read", "csv", "report", "success", "download", "done", "failed"}

documents_completed ==
  IF pc \in {"csv", "report", "success", "download", "done"}
  THEN Len(uploaded_files) ELSE i - 1

\* C10: where a step can fail, and between documents, the documents merged
\* into the cross-document profile are those with a summary row, the first
\* documents_completed ones, and the rows are in upload order.
C10_NoPartialUpdates ==
  observable =>
    /\ Len(error_summary) = documents_completed
    /\ \A j \in 1..Len(error_summary) : error_summary[j][1] = j
    /\ all_pos_profile = merged_in_order([j \in 1..Len(error_summary) |-> j])

C10_Witness ==
  /\ pc = "pos_tag"
  /\ i = 2
  /\ Len(error_summary) = 1
  /\ all_pos_profile # <<>>
  /\ st.error_count > 0

====
